---- MODULE Spec2Model ----
(***************************************************************************)
(* Model of migrate_db.py: the interactive confirmation in __main__, the   *)
(* function migrate_database and the part of the SQLite database           *)
(* (workbot.db, table Users) that its eight statements read and write.     *)
(***************************************************************************)
EXTENDS Integers, Sequences, FiniteSets, TLC

(* ------------------------------ bounds --------------------------------- *)
MaxRows == 1
MaxRuns == 2
MaxFaults == 1
MaxLen == 3

(* --------------------------- the database ------------------------------ *)
SqlNull == "<NULL>"
NoColumn == "<absent>"

NewCols == {"DisplayName", "ExternalId", "EmployeeId", "AuthenticationMethod"}
Indexes == {"IX_Users_ExternalId", "IX_Users_EmployeeId", "IX_Users_AuthenticationMethod"}
AuthVals == {SqlNull, "", "Local", "LDAP"}

SeqsUpTo(S, n) == UNION {[1..k -> S] : k \in 0..n}

\* the eight statements, in list order
migration_commands ==
  << [kind |-> "ALTER",  col |-> "DisplayName",          name |-> "", dflt |-> SqlNull],
     [kind |-> "ALTER",  col |-> "ExternalId",           name |-> "", dflt |-> SqlNull],
     [kind |-> "ALTER",  col |-> "EmployeeId",           name |-> "", dflt |-> SqlNull],
     [kind |-> "ALTER",  col |-> "AuthenticationMethod", name |-> "", dflt |-> "Local"],
     [kind |-> "CREATE", col |-> "ExternalId",           name |-> "IX_Users_ExternalId", dflt |-> ""],
     [kind |-> "CREATE", col |-> "EmployeeId",           name |-> "IX_Users_EmployeeId", dflt |-> ""],
     [kind |-> "CREATE", col |-> "AuthenticationMethod", name |-> "IX_Users_AuthenticationMethod", dflt |-> ""],
     [kind |-> "UPDATE", col |-> "AuthenticationMethod", name |-> "", dflt |-> "Local"] >>

NSteps == Len(migration_commands)

\* exceptions: class and message
NoErr == [cls |-> "none", msg |-> ""]
OpErr(m) == [cls |-> "OperationalError", msg |-> m]
DupMsg(c) ==
  CASE c = "DisplayName"          -> "duplicate column name: DisplayName"
    [] c = "ExternalId"           -> "duplicate column name: ExternalId"
    [] c = "EmployeeId"           -> "duplicate column name: EmployeeId"
    [] c = "AuthenticationMethod" -> "duplicate column name: AuthenticationMethod"
LockedErr == OpErr("database is locked")
CantOpenErr == OpErr("unable to open database file")
IntegrityErr == [cls |-> "IntegrityError", msg |-> "constraint failed"]
StepFaults == {LockedErr, IntegrityErr}

\* str(e).lower() on the messages the model produces
LowerMsg(m) ==
  CASE m = "duplicate column name: DisplayName"          -> "duplicate column name: displayname"
    [] m = "duplicate column name: ExternalId"           -> "duplicate column name: externalid"
    [] m = "duplicate column name: EmployeeId"           -> "duplicate column name: employeeid"
    [] m = "duplicate column name: AuthenticationMethod" -> "duplicate column name: authenticationmethod"
    [] m = "no such table: Users"                        -> "no such table: users"
    [] m = "no such column: Username"                    -> "no such column: username"
    [] OTHER -> m
\* "duplicate column name" in <lower-cased message>
HasDupPhrase(lm) ==
  lm \in {"duplicate column name: displayname", "duplicate column name: externalid",
          "duplicate column name: employeeid", "duplicate column name: authenticationmethod"}

\* rows of Users: the AuthenticationMethod value of each row
RowsFor(c) ==
  IF "AuthenticationMethod" \in c THEN SeqsUpTo(AuthVals, MaxRows)
                                  ELSE SeqsUpTo({NoColumn}, MaxRows)

NoTableDB == [table |-> FALSE, username |-> FALSE, cols |-> {}, idx |-> {}, rows |-> << >>]

TableDBs ==
  UNION { { [table |-> TRUE, username |-> u, cols |-> c, idx |-> x, rows |-> r] :
              u \in BOOLEAN, x \in SUBSET Indexes, r \in RowsFor(c) } : c \in SUBSET NewCols }

\* cursor.execute(command) against database d, with t the connection's open
\* transaction (<< >> when none, <<rows>> when an UPDATE is pending)
ViewRows(d, t) == IF t = << >> THEN d.rows ELSE t[1]

BackfillMut(v) == IF v = SqlNull THEN "Local" ELSE v
Backfill(v) == IF v = SqlNull \/ v = "" THEN "Local" ELSE v

Execute(cmd, d, t) ==
  IF ~d.table
    THEN [err |-> OpErr("no such table: Users"), db |-> d, tx |-> t]
  ELSE IF cmd.kind = "ALTER"
    THEN IF cmd.col \in d.cols
           THEN [err |-> OpErr(DupMsg(cmd.col)), db |-> d, tx |-> t]
           ELSE [err |-> NoErr,
                 db  |-> [d EXCEPT !.cols = @ \cup {cmd.col},
                                   !.rows = IF cmd.col = "AuthenticationMethod"
                                              THEN [k \in DOMAIN @ |-> cmd.dflt] ELSE @],
                 tx  |-> t]
  ELSE IF cmd.kind = "CREATE"
    THEN IF cmd.name \in d.idx
           THEN [err |-> NoErr, db |-> d, tx |-> t]
         ELSE IF cmd.col \notin d.cols
           THEN [err |-> OpErr("no such column"), db |-> d, tx |-> t]
           ELSE [err |-> NoErr, db |-> [d EXCEPT !.idx = @ \cup {cmd.name}], tx |-> t]
  ELSE IF cmd.col \notin d.cols
    THEN [err |-> OpErr("no such column"), db |-> d, tx |-> t]
    ELSE [err |-> NoErr, db |-> d,
          tx  |-> << [k \in DOMAIN ViewRows(d, t) |-> Backfill(ViewRows(d, t)[k])] >>]

(* ------------------------- the confirmation gate ----------------------- *)
Whitespace == {" ", "\t"}
Alphabet == {"y", "Y", "e", "E", "s", "S", " ", "n"}

LowerChar(c) ==
  CASE c = "Y" -> "y" [] c = "E" -> "e" [] c = "S" -> "s" [] c = "N" -> "n" [] OTHER -> c
Lower(s) == [k \in DOMAIN s |-> LowerChar(s[k])]

RECURSIVE LStrip(_)
LStrip(s) == IF s # << >> /\ Head(s) \in Whitespace THEN LStrip(Tail(s)) ELSE s
RECURSIVE RStrip(_)
RStrip(s) ==
  IF s # << >> /\ s[Len(s)] \in Whitespace THEN RStrip(SubSeq(s, 1, Len(s) - 1)) ELSE s
Strip(s) == RStrip(LStrip(s))

\* response in ['y', 'yes'] with response = input(...).strip().lower()
AcceptsMut(r) == Lower(Strip(r)) # << >> /\ Lower(Strip(r))[1] = "y"
Accepts(r) == Lower(Strip(r)) \in { <<"y">>, <<"y", "e", "s">> }

RunResponses == { <<"y">>, <<"n">>, << >> }
GateResponses == SeqsUpTo(Alphabet, MaxLen)

(* --------------------------- program state ----------------------------- *)
VARIABLES
  pc,         \* position of the script
  response,   \* the normalised-to-be answer read by input()
  fileExists, \* workbot.db exists in the current directory
  db,         \* durable content of workbot.db
  tx,         \* pending transaction of the open connection
  conn,       \* local variable conn: "unbound", "open" or "closed"
  i,          \* loop index of the statement loop
  ret,        \* outcome of migrate_database: "none", "True", "False", "raised"
  out,        \* final message printed by __main__
  log,        \* events of the current run, in order
  opened,     \* connections opened in the current run
  snap,       \* database and file at the start of the current run
  prev,       \* summary of the previous run
  injected,   \* an environment fault was injected in the current run
  faults,     \* environment faults injected so far
  runs        \* script invocations so far

vars == <<pc, response, fileExists, db, tx, conn, i, ret, out, log, opened,
          snap, prev, injected, faults, runs>>

Ev(e, n, r, x) == [ev |-> e, n |-> n, res |-> r, err |-> x]

HasEv(l, e, r) == \E k \in DOMAIN l : l[k].ev = e /\ l[k].res = r

Committed(l) == HasEv(l, "commit", "ok")

NoPrev == [ran |-> FALSE, committed |-> FALSE, ret |-> "none"]

InitWith(files) ==
  /\ \E f \in files : fileExists = f.exists /\ db = f.db /\ snap = f
  /\ pc = "main"
  /\ response = << >>
  /\ tx = << >>
  /\ conn = "unbound"
  /\ i = 0
  /\ ret = "none"
  /\ out = "none"
  /\ log = << >>
  /\ opened = 0
  /\ prev = NoPrev
  /\ injected = FALSE
  /\ faults = 0
  /\ runs = 1

AllFiles ==
  {[exists |-> FALSE, db |-> NoTableDB], [exists |-> TRUE, db |-> NoTableDB]}
    \cup {[exists |-> TRUE, db |-> d] : d \in TableDBs}

Init == InitWith(AllFiles)

(* ------------------------------ __main__ ------------------------------- *)
\* response = input(...)  (normalisation is applied by Accepts)
Prompt(R) ==
  /\ pc = "main"
  /\ \E r \in R : response' = r
  /\ pc' = "gate"
  /\ UNCHANGED <<fileExists, db, tx, conn, i, ret, out, log, opened, snap, prev,
                 injected, faults, runs>>

\* if response in ['y', 'yes']: migrate_database() else: print("Migration cancelled.")
Gate ==
  /\ pc = "gate"
  /\ IF Accepts(response)
       THEN pc' = "exists" /\ out' = out
       ELSE pc' = "exit" /\ out' = "cancelled"
  /\ UNCHANGED <<response, fileExists, db, tx, conn, i, ret, log, opened, snap, prev,
                 injected, faults, runs>>

(* -------------------------- migrate_database --------------------------- *)
PathExistsMut(f) == TRUE
PathExists(f) == f

\* if not os.path.exists(db_path): return False
CheckExists ==
  /\ pc = "exists"
  /\ IF ~PathExists(fileExists)
       THEN ret' = "False" /\ pc' = "after"
       ELSE ret' = ret /\ pc' = "connect"
  /\ UNCHANGED <<response, fileExists, db, tx, conn, i, out, log, opened, snap, prev,
                 injected, faults, runs>>

\* conn = sqlite3.connect(db_path); cursor = conn.cursor()
\* (connect creates the file when it is missing)
Connect ==
  /\ pc = "connect"
  /\ conn' = "open"
  /\ opened' = opened + 1
  /\ fileExists' = TRUE
  /\ log' = Append(log, Ev("open", 0, "ok", NoErr))
  /\ i' = 1
  /\ pc' = "loop"
  /\ UNCHANGED <<response, db, tx, ret, out, snap, prev, injected, faults, runs>>

\* sqlite3.connect raises: conn is never bound; the outer handler prints and
\* returns False, then the finally clause runs
ConnectFault ==
  /\ pc = "connect"
  /\ faults < MaxFaults
  /\ faults' = faults + 1
  /\ injected' = TRUE
  /\ log' = Append(log, Ev("open", 0, "fatal", CantOpenErr))
  /\ ret' = "False"
  /\ pc' = "finally"
  /\ UNCHANGED <<response, fileExists, db, tx, conn, i, out, opened, snap, prev, runs>>

\* the error test of the inner handlers
IsDuplicateColumnMut(e) == FALSE
IsDuplicateColumn(e) == HasDupPhrase(LowerMsg(e.msg))

StepVerdictDupFatal(e) ==
  IF e = NoErr THEN "ok" ELSE "fatal"
StepVerdictMut(e) ==
  IF e = NoErr THEN "ok"
  ELSE IF e.cls = "OperationalError"
    THEN IF IsDuplicateColumn(e) THEN "skip" ELSE "fatal"
    ELSE "skip"
StepVerdict(e) ==
  IF e = NoErr THEN "ok"
  ELSE IF e.cls = "OperationalError"
    THEN IF IsDuplicateColumn(e) THEN "skip" ELSE "fatal"
    ELSE "fatal"

LoopDoneMut(k) == k >= NSteps
LoopDone(k) == k > NSteps

\* one iteration of the loop, o being what cursor.execute did
StepWith(o) ==
  LET v == StepVerdict(o.err) IN
  /\ db' = o.db
  /\ tx' = o.tx
  /\ log' = Append(log, Ev("exec", i, v, o.err))
  /\ IF v = "fatal"
       THEN ret' = "False" /\ pc' = "finally" /\ i' = i
       ELSE ret' = ret /\ i' = i + 1
            /\ pc' = IF LoopDone(i + 1) THEN "commit" ELSE "loop"

Step ==
  /\ pc = "loop"
  /\ StepWith(Execute(migration_commands[i], db, tx))
  /\ UNCHANGED <<response, fileExists, conn, out, opened, snap, prev, injected, faults, runs>>

\* the statement fails for a reason outside the script (locked database,
\* constraint violation, ...): nothing is changed by the statement
StepFault ==
  /\ pc = "loop"
  /\ faults < MaxFaults
  /\ \E e \in StepFaults : StepWith([err |-> e, db |-> db, tx |-> tx])
  /\ faults' = faults + 1
  /\ injected' = TRUE
  /\ UNCHANGED <<response, fileExists, conn, out, opened, snap, prev, runs>>

\* conn.commit()
CommitRows(d, t) == [d EXCEPT !.rows = ViewRows(d, t)]

Commit ==
  /\ pc = "commit"
  /\ db' = CommitRows(db, tx)
  /\ tx' = << >>
  /\ log' = Append(log, Ev("commit", 0, "ok", NoErr))
  /\ pc' = "verify1"
  /\ UNCHANGED <<response, fileExists, conn, i, ret, out, opened, snap, prev,
                 injected, faults, runs>>

CommitFault ==
  /\ pc = "commit"
  /\ faults < MaxFaults
  /\ faults' = faults + 1
  /\ injected' = TRUE
  /\ log' = Append(log, Ev("commit", 0, "fatal", LockedErr))
  /\ ret' = "False"
  /\ pc' = "finally"
  /\ UNCHANGED <<response, fileExists, db, tx, conn, i, out, opened, snap, prev, runs>>

\* cursor.execute("PRAGMA table_info(Users);")
VerifyColumns ==
  /\ pc = "verify1"
  /\ log' = Append(log, Ev("verify", 1, "ok", NoErr))
  /\ pc' = "verify2"
  /\ UNCHANGED <<response, fileExists, db, tx, conn, i, ret, out, opened, snap, prev,
                 injected, faults, runs>>

\* cursor.execute("SELECT COUNT(*) FROM Users;"); if user_count > 0: ... return True
VerifyCount ==
  /\ pc = "verify2"
  /\ log' = Append(log, Ev("verify", 2, "ok", NoErr))
  /\ IF Len(ViewRows(db, tx)) > 0
       THEN pc' = "verify3" /\ ret' = ret
       ELSE pc' = "finally" /\ ret' = "True"
  /\ UNCHANGED <<response, fileExists, db, tx, conn, i, out, opened, snap, prev,
                 injected, faults, runs>>

\* cursor.execute("SELECT Username, AuthenticationMethod FROM Users LIMIT 5;")
VerifySample ==
  /\ pc = "verify3"
  /\ IF db.username
       THEN log' = Append(log, Ev("verify", 3, "ok", NoErr)) /\ ret' = "True"
       ELSE log' = Append(log, Ev("verify", 3, "fatal", OpErr("no such column: Username"))) /\ ret' = "False"
  /\ pc' = "finally"
  /\ UNCHANGED <<response, fileExists, db, tx, conn, i, out, opened, snap, prev,
                 injected, faults, runs>>

\* a verification query raises for a reason outside the script
VerifyFault ==
  /\ pc \in {"verify1", "verify2", "verify3"}
  /\ faults < MaxFaults
  /\ faults' = faults + 1
  /\ injected' = TRUE
  /\ log' = Append(log, Ev("verify", 0, "fatal", LockedErr))
  /\ ret' = "False"
  /\ pc' = "finally"
  /\ UNCHANGED <<response, fileExists, db, tx, conn, i, out, opened, snap, prev, runs>>

\* finally: if conn: conn.close()
\* reading conn when connect raised is an UnboundLocalError, which replaces
\* the pending return value
CloseNeededMut(c) == FALSE
CloseNeeded(c) == c \in {"open", "closed"}

Finally ==
  /\ pc = "finally"
  /\ IF conn = "unbound"
       THEN /\ ret' = "raised"
            /\ pc' = "crash"
            /\ UNCHANGED <<conn, tx, log>>
       ELSE /\ ret' = ret
            /\ pc' = "after"
            /\ IF CloseNeeded(conn)
                 THEN conn' = "closed" /\ tx' = << >> /\ log' = Append(log, Ev("close", 0, "ok", NoErr))
                 ELSE UNCHANGED <<conn, tx, log>>
  /\ UNCHANGED <<response, fileExists, db, i, out, opened, snap, prev, injected, faults, runs>>

\* if success: print("Migration completed successfully!") else: print("Migration failed...")
Report ==
  /\ pc = "after"
  /\ out' = IF ret = "True" THEN "success" ELSE "failed"
  /\ pc' = "exit"
  /\ UNCHANGED <<response, fileExists, db, tx, conn, i, ret, log, opened, snap, prev,
                 injected, faults, runs>>

\* the script is started again on the same directory; a connection the
\* previous process left open is dropped with the process
Rerun ==
  /\ pc \in {"exit", "crash"}
  /\ runs < MaxRuns
  /\ runs' = runs + 1
  /\ prev' = [ran |-> TRUE, committed |-> Committed(log), ret |-> ret]
  /\ snap' = [exists |-> fileExists, db |-> db]
  /\ pc' = "main"
  /\ response' = << >>
  /\ tx' = << >>
  /\ conn' = "unbound"
  /\ i' = 0
  /\ ret' = "none"
  /\ out' = "none"
  /\ log' = << >>
  /\ opened' = 0
  /\ injected' = FALSE
  /\ UNCHANGED <<fileExists, db, faults>>

Next ==
  \/ Prompt(RunResponses) \/ Gate
  \/ CheckExists \/ Connect \/ ConnectFault \/ Step \/ StepFault
  \/ Commit \/ CommitFault \/ VerifyColumns \/ VerifyCount \/ VerifySample
  \/ VerifyFault \/ Finally
  \/ Report \/ Rerun

Spec == Init /\ [][Next]_vars

\* the confirmation gate on its own: every short answer, a few databases
GateFiles ==
  {[exists |-> FALSE, db |-> NoTableDB]}
    \cup {[exists |-> TRUE, db |-> d] :
            d \in {e \in TableDBs : e.cols = {} /\ e.idx = {} /\ e.username}}

InitGate == InitWith(GateFiles)

NextGate ==
  \/ Prompt(GateResponses) \/ Gate
  \/ CheckExists \/ Connect \/ ConnectFault \/ Step \/ StepFault
  \/ Commit \/ CommitFault \/ VerifyColumns \/ VerifyCount \/ VerifySample
  \/ VerifyFault \/ Finally
  \/ Report

SpecGate == InitGate /\ [][NextGate]_vars

TypeOK ==
  /\ pc \in {"main", "gate", "exists", "connect", "loop", "commit", "verify1",
             "verify2", "verify3", "finally", "after", "exit", "crash"}
  /\ conn \in {"unbound", "open", "closed"}
  /\ ret \in {"none", "True", "False", "raised"}
  /\ out \in {"none", "cancelled", "success", "failed"}
  /\ i \in 0..(NSteps + 1)
  /\ faults \in 0..MaxFaults
  /\ runs \in 1..MaxRuns

(* ------------------------------ properties ----------------------------- *)
Invoked == pc \notin {"main", "gate", "exists"} /\ out # "cancelled"
Events(e) == {k \in DOMAIN log : log[k].ev = e}
SkippedSteps == {log[k].n : k \in {j \in Events("exec") : log[j].res = "skip"}}
NoFatalEvent == \A k \in DOMAIN log : log[k].res # "fatal"
DupErrors == {OpErr(DupMsg(c)) : c \in NewCols}
Migrated(d) ==
  /\ d.cols = NewCols
  /\ d.idx = Indexes
  /\ \A k \in DOMAIN d.rows : d.rows[k] \notin {SqlNull, ""}

\* C1: after a run that executed or skipped all eight steps and committed, a
\* second run changes neither the columns, nor the indexes, nor any row's
\* AuthenticationMethod, and (when nothing outside the script fails) it
\* commits again, returning True if the first run returned True.
C1_Idempotent ==
  prev.committed =>
    /\ db.cols = snap.db.cols
    /\ db.idx = snap.db.idx
    /\ db.rows = snap.db.rows
    /\ ViewRows(db, tx) = snap.db.rows
    /\ (pc = "exit" /\ Invoked /\ ~injected =>
          /\ Committed(log)
          /\ (prev.ret = "True" => ret = "True"))

C1_Witness ==
  /\ prev.committed /\ prev.ret = "True"
  /\ pc = "exit" /\ ret = "True"
  /\ SkippedSteps = {1, 2, 3, 4}
  /\ db.rows # << >>

\* C2: a duplicate-column error at step i is skipped: the run goes on with
\* step i+1 (the commit after the last step), nothing is returned at that
\* point, and a run on an existing Users table in which nothing outside the
\* script fails has no fatal step, commits and returns True when its
\* verification passes, whichever of the four columns already existed.
C2_DuplicateIsSkipped ==
  /\ \A k \in Events("exec") :
       log[k].err \in DupErrors =>
         /\ log[k].res = "skip"
         /\ IF k = Len(log)
              THEN /\ ret = "none"
                   /\ i = log[k].n + 1
                   /\ pc = IF i > NSteps THEN "commit" ELSE "loop"
              ELSE \/ log[k + 1].ev = "exec" /\ log[k + 1].n = log[k].n + 1
                   \/ log[k + 1].ev = "commit" /\ log[k].n = NSteps
  /\ (Invoked /\ snap.exists /\ snap.db.table /\ ~injected) =>
       /\ \A k \in Events("exec") : log[k].res # "fatal"
       /\ (pc = "exit" => Committed(log))
       /\ (pc = "exit" /\ NoFatalEvent => ret = "True")

C2_Witness ==
  /\ pc = "exit" /\ ret = "True" /\ Committed(log)
  /\ SkippedSteps = {1, 2, 3, 4}
  /\ Cardinality(Events("exec")) = NSteps

\* C3: an error at step i that is not a duplicate-column error is fatal:
\* step i is the last statement executed, commit is not called and the
\* function returns False.
C3_OtherErrorIsFatal ==
  \A k \in Events("exec") :
    (log[k].err # NoErr /\ log[k].err \notin DupErrors) =>
      /\ log[k].res = "fatal"
      /\ \A j \in DOMAIN log : j > k => log[j].ev = "close"
      /\ Events("commit") = {}
      /\ ret = "False"
      /\ pc \in {"finally", "after", "exit"}

C3_Witness ==
  /\ pc = "exit" /\ ret = "False"
  /\ \E k \in Events("exec") :
       log[k].err = IntegrityErr /\ log[k].n = 3 /\ log[k].res = "fatal"

\* C4: whatever subset of the four columns and of the three indexes existed
\* at the start, a run that returns True leaves all four columns, all three
\* indexes and no row with a NULL or empty AuthenticationMethod.
C4_TrueMeansMigrated == ret = "True" => Migrated(db)

C4_Witness ==
  /\ pc = "exit" /\ ret = "True"
  /\ prev.ran /\ prev.ret = "False" /\ ~prev.committed
  /\ snap.db.cols \notin {{}, NewCols}
  /\ snap.db.rows # << >>
  /\ Migrated(db)

\* C5: order of the events of a run: the connection is opened first, the
\* statements are attempted in list order, each once (four ADD COLUMN, three
\* CREATE INDEX, one UPDATE), the commit follows step 8 executed or skipped,
\* verification follows the commit, the close is last.
StepKind(n) == IF n <= 4 THEN "ALTER" ELSE IF n <= 7 THEN "CREATE" ELSE "UPDATE"

C5_EventOrder ==
  /\ log # << >> => log[1].ev = "open"
  /\ \A k \in Events("open") : k = 1
  /\ \A k \in Events("exec") :
       /\ log[1].res = "ok"
       /\ log[k].n = k - 1
       /\ log[k].n \in 1..NSteps
       /\ migration_commands[log[k].n].kind = StepKind(log[k].n)
  /\ \A k \in Events("commit") :
       /\ k = NSteps + 2
       /\ log[k - 1].ev = "exec" /\ log[k - 1].n = NSteps
       /\ log[k - 1].res \in {"ok", "skip"}
  /\ \A k \in Events("verify") :
       \E j \in Events("commit") : j < k /\ log[j].res = "ok"
  /\ \A k \in Events("close") : k = Len(log) /\ k > 1
  /\ (pc \in {"after", "exit"} /\ log # << >>) => log[Len(log)].ev = "close"

C5_Witness ==
  /\ pc = "exit"
  /\ Len(log) = NSteps + 6
  /\ log[Len(log)].ev = "close"

\* C6: a run opens at most one connection, and once migrate_database has
\* finished every connection it opened is closed.
C6_ConnectionClosed ==
  /\ opened <= 1
  /\ (opened >= 1 /\ pc \in {"after", "exit", "crash"}) => conn = "closed"

C6_Witness ==
  /\ pc = "exit" /\ conn = "closed" /\ opened = 1
  /\ \E k \in Events("exec") : log[k].res = "fatal"

\* C7: migrate_database is entered only for an answer that is 'y' or 'yes'
\* up to surrounding whitespace and letter case; any other answer opens no
\* connection, executes nothing and leaves the file and database as they were.
IsYes(r) ==
  \E a, b \in 0..Len(r) :
    /\ a + b <= Len(r)
    /\ \A k \in 1..a : r[k] \in Whitespace
    /\ \A k \in (Len(r) - b + 1)..Len(r) : r[k] \in Whitespace
    /\ LET m == SubSeq(r, a + 1, Len(r) - b) IN
         /\ Len(m) \in {1, 3}
         /\ m[1] \in {"y", "Y"}
         /\ Len(m) = 3 => m[2] \in {"e", "E"} /\ m[3] \in {"s", "S"}

C7_Gate ==
  (pc \notin {"main", "gate"} /\ ~IsYes(response)) =>
    /\ pc = "exit" /\ out = "cancelled"
    /\ ret = "none"
    /\ log = << >> /\ opened = 0 /\ conn = "unbound"
    /\ db = snap.db /\ fileExists = snap.exists

C7_Witness ==
  /\ pc = "exit" /\ out = "cancelled"
  /\ Len(response) = 2 /\ response[1] = "y"

\* C8: an exception raised by connect, commit or a verification query is
\* caught and migrate_database returns False; no exception leaves it.
C8_NoExceptionEscapes ==
  /\ ret # "raised"
  /\ (pc \in {"after", "exit", "crash"} /\ ~NoFatalEvent) => ret = "False"

\* C9: when workbot.db does not exist, migrate_database returns False, opens
\* no connection, executes no statement and does not create the file.
C9_MissingFile ==
  (~snap.exists /\ Invoked) =>
    /\ ret = "False"
    /\ pc \in {"after", "exit"}
    /\ opened = 0 /\ log = << >> /\ conn = "unbound"
    /\ ~fileExists /\ db = snap.db

C9_Witness == ~snap.exists /\ pc = "exit" /\ out = "failed" /\ ret = "False"

\* C10: the reported outcome matches the commit: the run returns True and
\* reports success exactly when commit was executed, and returns False and
\* reports failure exactly when it was not.
C10_ReportMatchesCommit ==
  (pc = "exit" /\ out # "cancelled") =>
    /\ (ret = "True" /\ out = "success") <=> Committed(log)
    /\ (ret = "False" /\ out = "failed") <=> ~Committed(log)

====
